---- MODULE Spec2Model ----
(***************************************************************************)
(* Model of jsonargparse/signatures.py: SignatureArguments, the derivation *)
(* of parser options from the signatures of classes, methods and           *)
(* functions.  One behaviour is one call of add_class_arguments,           *)
(* add_method_arguments or add_function_arguments, followed step by step   *)
(* through _add_signature_arguments.                                       *)
(***************************************************************************)
EXTENDS Integers, Sequences, FiniteSets, TLC

(***************************************************************************)
(* Bounds of the model.                                                    *)
(***************************************************************************)
\* Largest number of user classes in the ancestor chain of `theclass`; the
\* chain handed to _add_signature_arguments also ends with `object`.
MaxChain == 2

(***************************************************************************)
(* Python values.                                                          *)
(***************************************************************************)
None == "None"

\* inspect._ParameterKind members the code distinguishes.
POSITIONAL_ONLY == "POSITIONAL_ONLY"
POSITIONAL_OR_KEYWORD == "POSITIONAL_OR_KEYWORD"
VAR_POSITIONAL == "VAR_POSITIONAL"
VAR_KEYWORD == "VAR_KEYWORD"

\* A type annotation: a type tag t and whether it is written Optional[t].
\* The tag "_empty" is inspect._empty, the absent annotation.
Type(t) == [t |-> t, opt |-> FALSE]
OptionalOf(annotation) == [t |-> annotation.t, opt |-> TRUE]
_empty == Type("_empty")

\* A default: the value written in the signature.  value = "_empty" is the
\* absent default; factory = TRUE is the dataclasses default-factory marker,
\* whose default_factory() returns value.
Default(v) == [factory |-> FALSE, value |-> v]
Factory(v) == [factory |-> TRUE, value |-> v]
NoDefault == Default("_empty")

\* type(default) for the default values of the model.
TypeOfValue(v) ==
    CASE v = "1" -> Type("int")
      [] v = "None" -> Type("NoneType")
      [] OTHER -> Type("Unsupported")

Param(name, kind, annotation, default) ==
    [name |-> name, kind |-> kind, annotation |-> annotation, default |-> default]

SelfParam == Param("self", POSITIONAL_OR_KEYWORD, _empty, NoDefault)
VarArgs == Param("args", VAR_POSITIONAL, _empty, NoDefault)
VarKwargs == Param("kwargs", VAR_KEYWORD, _empty, NoDefault)

(***************************************************************************)
(* Collaborators the module imports.                                       *)
(***************************************************************************)
\* typing.is_optional(annotation, object)
is_optional(annotation) == annotation.opt

\* `annotation in {str, int, float, bool}`
IsSimpleType(annotation) ==
    ~annotation.opt /\ annotation.t \in {"str", "int", "float", "bool"}

\* util._issubclass(annotation, (str, int, float)): PosInt is a user
\* subclass of int, bool is a subclass of int.
_issubclass_simple(annotation) ==
    ~annotation.opt /\ annotation.t \in {"str", "int", "float", "bool", "PosInt"}

\* util._issubclass(annotation, Enum)
_issubclass_Enum(annotation) == ~annotation.opt /\ annotation.t = "MyEnum"

\* Whether ActionJsonSchema(annotation=...) can be constructed; it raises
\* ValueError otherwise.
JsonSchemaSupported(annotation) ==
    annotation.t \in {"str", "int", "float", "bool", "List", "MyEnum"}

ActionEnum(annotation) == [class |-> "ActionEnum", arg |-> annotation]
ActionJsonSchema(annotation) == [class |-> "ActionJsonSchema", arg |-> annotation]
_ActionConfigLoad == [class |-> "_ActionConfigLoad", arg |-> _empty]

\* docstring_parse(doc) of a docstring text: text None parses to an empty
\* docstring; parses = FALSE is a text on which the parser raises ValueError.
NoDoc == [parses |-> TRUE, short_description |-> None, params |-> <<>>]
Unparsable == [parses |-> FALSE, short_description |-> None, params |-> <<>>]


(***************************************************************************)
(* Callables.  An object of the chain is a record: __name__, the           *)
(* parameters of inspect.signature(sign_func(obj)) in order, and the       *)
(* docstrings docs_func(obj) returns, already parsed.                      *)
(***************************************************************************)
IsRegular(param) == param.kind \notin {VAR_POSITIONAL, VAR_KEYWORD}

\* The docstring of a callable that documents, in order, the parameters
\* named in `documented`.
DocOf(name, documented) ==
    [parses |-> TRUE,
     short_description |-> "About " \o name,
     params |-> [i \in 1..Len(documented) |->
                    [arg_name |-> documented[i],
                     description |-> name \o ":" \o documented[i]]]]

RECURSIVE NamesOf(_)
NamesOf(params) ==
    IF params = <<>> THEN <<>>
    ELSE (IF IsRegular(Head(params)) /\ Head(params).name # "self"
          THEN <<Head(params).name>> ELSE <<>>) \o NamesOf(Tail(params))

\* A user callable: documented exactly when it declares a regular
\* parameter; its docstring then describes each of them.
Callable(name, params) ==
    [name |-> name,
     params |-> params,
     docs |-> IF NamesOf(params) = <<>> THEN <<NoDoc>>
              ELSE <<DocOf(name, NamesOf(params))>>]

\* object: object.__init__ is (self, /, *args, **kwargs) and is documented.
ObjectClass ==
    [name |-> "object",
     params |-> <<Param("self", POSITIONAL_ONLY, _empty, NoDefault), VarArgs, VarKwargs>>,
     docs |-> <<DocOf("object", <<>>)>>]

(***************************************************************************)
(* State.                                                                  *)
(***************************************************************************)
VARIABLES
    call,         \* the arguments of _add_signature_arguments, [] when idle
    pc,           \* position in _add_signature_arguments
    objects,      \* local `objects` (truncated by the propagation loop)
    add_types,    \* local add_types: sequence of <<add_args, add_kwargs>>
    has_args,     \* local has_args
    has_kwargs,   \* local has_kwargs
    num,          \* local num (propagation loop index, then enumerate index)
    idx,          \* position of the zip(objects, add_types) iteration, from 1
    doc_group,    \* local doc_group
    doc_params,   \* local doc_params: parameter name -> description
    group,        \* local group: "self" (the parser) or the group's name
    groups,       \* argument groups of the parser: <<[title, name]>>
    options,      \* add_argument calls, in order: [on, opt_str, kwargs, src]
    added_args,   \* local added_args
    outcome,      \* None while running, else [returned | raised]
    inspected     \* chain positions whose signature or docstrings were read

vars == <<call, pc, objects, add_types, has_args, has_kwargs, num, idx,
          doc_group, doc_params, group, groups, options, added_args,
          outcome, inspected>>

Running == [kind |-> "running", value |-> 0, obj |-> None, name |-> None]
Returned(n) == [kind |-> "returned", value |-> n, obj |-> None, name |-> None]
\* ValueError('Required parameter without a type for <obj> parameter <name>.')
ValueError(obj, name) == [kind |-> "ValueError", value |-> 0, obj |-> obj, name |-> name]

NoCall == [entry |-> None]

Init ==
    /\ call = NoCall
    /\ pc = "idle"
    /\ objects = <<>>
    /\ add_types = <<>>
    /\ has_args = TRUE
    /\ has_kwargs = TRUE
    /\ num = 0
    /\ idx = 0
    /\ doc_group = None
    /\ doc_params = <<>>
    /\ group = None
    /\ groups = <<>>
    /\ options = <<>>
    /\ added_args = {}
    /\ outcome = Running
    /\ inspected = {}

(***************************************************************************)
(* Pure helpers of _add_signature_arguments.                               *)
(***************************************************************************)
Truthy(v) == v # None /\ v # ""

\* inspect.signature(sign_func(base)).parameters.values()
signature(base) == base.params

\* Mutant: `=` for `&=`, the flags of the earlier objects are forgotten.
update_has_args_kwargs_NoCarry(base, args, kwargs) ==
    <<\E i \in 1..Len(signature(base)) : signature(base)[i].kind = VAR_POSITIONAL,
      \E i \in 1..Len(signature(base)) : signature(base)[i].kind = VAR_KEYWORD>>

\* update_has_args_kwargs(base, has_args, has_kwargs)
update_has_args_kwargs(base, args, kwargs) ==
    <<args /\ \E i \in 1..Len(signature(base)) : signature(base)[i].kind = VAR_POSITIONAL,
      kwargs /\ \E i \in 1..Len(signature(base)) : signature(base)[i].kind = VAR_KEYWORD>>

\* is_required = default == inspect._empty
is_required(param) == param.default = NoDefault

\* Mutant: the branch of lines 219-221 is missing.
SkipReason_NoKwargsRule(param, n, add, skip, skip_first) ==
    CASE \/ param.kind \in {VAR_POSITIONAL, VAR_KEYWORD}
         \/ (is_required(param) /\ skip_first /\ n = 0)
         \/ (param.annotation = _empty /\ ~is_required(param)
               /\ param.default = Default(None)) -> "excluded"
      [] is_required(param) /\ ~add[1] -> "args not propagated"
      [] param.name \in skip -> "requested"
      [] OTHER -> None

\* Mutant: the branch of lines 216-218 is missing.
SkipReason_NoArgsRule(param, n, add, skip, skip_first) ==
    CASE \/ param.kind \in {VAR_POSITIONAL, VAR_KEYWORD}
         \/ (is_required(param) /\ skip_first /\ n = 0)
         \/ (param.annotation = _empty /\ ~is_required(param)
               /\ param.default = Default(None)) -> "excluded"
      [] ~is_required(param) /\ ~add[2] -> "kwargs not propagated"
      [] param.name \in skip -> "requested"
      [] OTHER -> None

\* The `continue` branches of lines 212-224, in order.  n is the enumerate
\* index (from 0), add is the <<add_args, add_kwargs>> pair of the object.
SkipReason(param, n, add, skip, skip_first) ==
    CASE \/ param.kind \in {VAR_POSITIONAL, VAR_KEYWORD}
         \/ (is_required(param) /\ skip_first /\ n = 0)
         \/ (param.annotation = _empty /\ ~is_required(param)
               /\ param.default = Default(None)) -> "excluded"
      [] is_required(param) /\ ~add[1] -> "args not propagated"
      [] ~is_required(param) /\ ~add[2] -> "kwargs not propagated"
      [] param.name \in skip -> "requested"
      [] OTHER -> None

\* Lines 225-226: the default, a default factory resolved.
ResolvedDefault(param) == param.default.value

\* Lines 227-228 and 232-233: the annotation the dispatch sees.
EffectiveAnnotation(param) ==
    LET inferred == IF param.annotation = _empty /\ ~is_required(param)
                    THEN TypeOfValue(ResolvedDefault(param))
                    ELSE param.annotation
    IN  IF ~is_required(param) /\ ResolvedDefault(param) = None /\ ~is_optional(inferred)
        THEN OptionalOf(inferred)
        ELSE inferred

\* Mutant: `else` for `elif not as_positional`, required=True also when
\* the parameter is added as a positional.
BaseKwargs_AlwaysRequired(param, params_doc, as_positional) ==
    LET help == "help" :> (IF param.name \in DOMAIN params_doc
                           THEN params_doc[param.name] ELSE None)
    IN  IF ~is_required(param) THEN help @@ ("default" :> ResolvedDefault(param))
        ELSE help @@ ("required" :> TRUE)

\* Lines 229-235: help, default, required.
BaseKwargs(param, params_doc, as_positional) ==
    LET help == "help" :> (IF param.name \in DOMAIN params_doc
                           THEN params_doc[param.name] ELSE None)
    IN  IF ~is_required(param) THEN help @@ ("default" :> ResolvedDefault(param))
        ELSE IF ~as_positional THEN help @@ ("required" :> TRUE)
        ELSE help

\* Lines 236-245: the type or action entry, none when ActionJsonSchema raises.
Dispatch(annotation) ==
    IF IsSimpleType(annotation) \/ _issubclass_simple(annotation)
    THEN "type" :> annotation
    ELSE IF _issubclass_Enum(annotation)
    THEN "action" :> ActionEnum(annotation)
    ELSE IF JsonSchemaSupported(annotation)
    THEN "action" :> ActionJsonSchema(annotation)
    ELSE <<>>

\* kwargs as it stands at line 246.
ParamKwargs(param, params_doc, as_positional) ==
    BaseKwargs(param, params_doc, as_positional) @@ Dispatch(EffectiveAnnotation(param))

\* Line 247.
Dest(nested_key, name) == (IF Truthy(nested_key) THEN nested_key \o "." ELSE "") \o name

\* Line 251.
OptStr(dest, param, as_positional) ==
    IF is_required(param) /\ as_positional THEN dest ELSE "--" \o dest

(***************************************************************************)
(* _gather_docstrings, lines 308-325.                                      *)
(***************************************************************************)
RECURSIVE AllDocs(_)
AllDocs(objs) ==
    IF objs = <<>> THEN <<>> ELSE Head(objs).docs \o AllDocs(Tail(objs))

RECURSIVE AddDocParams(_, _)
AddDocParams(params_doc, params) ==
    IF params = <<>> THEN params_doc
    ELSE AddDocParams(
            IF Head(params).arg_name \notin DOMAIN params_doc
            THEN params_doc @@ (Head(params).arg_name :> Head(params).description)
            ELSE params_doc,
            Tail(params))

RECURSIVE GatherLoop(_, _, _)
GatherLoop(docs, group_doc, params_doc) ==
    IF docs = <<>> THEN <<group_doc, params_doc>>
    ELSE IF ~Head(docs).parses THEN GatherLoop(Tail(docs), group_doc, params_doc)
    ELSE GatherLoop(
            Tail(docs),
            IF Truthy(Head(docs).short_description) /\ ~Truthy(group_doc)
            THEN Head(docs).short_description ELSE group_doc,
            AddDocParams(params_doc, Head(docs).params))

_gather_docstrings(objs, docstring_parser_support) ==
    IF docstring_parser_support THEN GatherLoop(AllDocs(objs), None, <<>>)
    ELSE <<None, <<>>>>

(***************************************************************************)
(* _add_signature_arguments, one action per step.                          *)
(***************************************************************************)
\* Lines 145-184: the call is entered with its arguments (skip=None is
\* passed as the empty set, line 200-201), add_types is seeded and the
\* first object's variadic parameters are read.
Enter(c) ==
    /\ pc = "idle"
    /\ call' = c
    /\ objects' = c.objects
    /\ add_types' = <<<<TRUE, TRUE>>>>
    /\ has_args' = update_has_args_kwargs(c.objects[1], TRUE, TRUE)[1]
    /\ has_kwargs' = update_has_args_kwargs(c.objects[1], TRUE, TRUE)[2]
    /\ num' = 1
    /\ inspected' = {1}
    /\ pc' = "propagation"
    /\ UNCHANGED <<idx, doc_group, doc_params, group, groups, options,
                   added_args, outcome>>

\* Lines 185-190, an iteration that does not break.
PropagateStep ==
    /\ pc = "propagation"
    /\ num < Len(objects)
    /\ has_args \/ has_kwargs
    /\ add_types' = Append(add_types, <<has_args, has_kwargs>>)
    /\ has_args' = update_has_args_kwargs(objects[num + 1], has_args, has_kwargs)[1]
    /\ has_kwargs' = update_has_args_kwargs(objects[num + 1], has_args, has_kwargs)[2]
    /\ inspected' = inspected \cup {num + 1}
    /\ num' = num + 1
    /\ UNCHANGED <<call, pc, objects, idx, doc_group, doc_params, group,
                   groups, options, added_args, outcome>>

\* Mutant: the break is taken without cutting the chain.
TruncatedChain_NoCut(objs, n) == objs

\* Line 187: objects[:num]
TruncatedChain(objs, n) == SubSeq(objs, 1, n)

\* Lines 186-188: both flags false, the chain is cut and the loop left.
Truncate ==
    /\ pc = "propagation"
    /\ num < Len(objects)
    /\ ~(has_args \/ has_kwargs)
    /\ objects' = TruncatedChain(objects, num)
    /\ pc' = "docstrings"
    /\ UNCHANGED <<call, add_types, has_args, has_kwargs, num, idx, doc_group,
                   doc_params, group, groups, options, added_args, outcome,
                   inspected>>

\* Line 193, after the loop ended by exhaustion or by break.
GatherDocstrings ==
    /\ \/ pc = "docstrings"
       \/ pc = "propagation" /\ num >= Len(objects)
    /\ doc_group' = _gather_docstrings(objects, call.docstring_parser_support)[1]
    /\ doc_params' = _gather_docstrings(objects, call.docstring_parser_support)[2]
    /\ inspected' = inspected \cup (IF call.docstring_parser_support
                                   THEN 1..Len(objects) ELSE {})
    /\ pc' = "group"
    /\ UNCHANGED <<call, objects, add_types, has_args, has_kwargs, num, idx,
                   group, groups, options, added_args, outcome>>

\* str(obj)
StrOf(obj) == "<" \o obj.name \o ">"

\* Mutant: the group is created without its config-load option.
_create_group_if_requested_NoConfigLoad(obj, nested_key, as_group, group_doc, config_load) ==
    IF ~as_group THEN <<"self", groups, options>>
    ELSE LET title == IF group_doc = None THEN "<" \o obj.name \o ">" ELSE group_doc
             name == IF nested_key = None THEN obj.name ELSE nested_key
         IN  <<name, Append(groups, [title |-> title, name |-> name]), options>>

\* _create_group_if_requested (lines 328-337) as <<group, groups, options>>.
_create_group_if_requested(obj, nested_key, as_group, group_doc, config_load) ==
    IF ~as_group THEN <<"self", groups, options>>
    ELSE LET title == IF group_doc = None THEN StrOf(obj) ELSE group_doc
             name == IF nested_key = None THEN obj.name ELSE nested_key
         IN  <<name,
               Append(groups, [title |-> title, name |-> name]),
               IF config_load /\ nested_key # None
               THEN Append(options, [on |-> name,
                                     opt_str |-> "--" \o nested_key,
                                     kwargs |-> ("action" :> _ActionConfigLoad),
                                     src |-> <<0, 0>>])
               ELSE options>>

\* Lines 196-204: the group, the empty added_args, the first zip pair.
CreateGroup ==
    /\ pc = "group"
    /\ LET made == _create_group_if_requested(objects[1], call.nested_key,
                                              call.as_group, doc_group, TRUE)
       IN  /\ group' = made[1]
           /\ groups' = made[2]
           /\ options' = made[3]
    /\ added_args' = {}
    /\ idx' = 1
    /\ num' = 0
    /\ inspected' = inspected \cup {1}
    /\ pc' = "walk"
    /\ UNCHANGED <<call, objects, add_types, has_args, has_kwargs, doc_group,
                   doc_params, outcome>>

\* zip(objects, add_types) stops with the shorter of the two.
ZipLen == IF Len(objects) <= Len(add_types) THEN Len(objects) ELSE Len(add_types)

\* Line 246: the parameter got an option kind.
HasOptionKind(kwargs) == "type" \in DOMAIN kwargs \/ "action" \in DOMAIN kwargs

\* Mutant: the test of line 248 is missing, every option is added.
Register_Always(opts, added, dest, option) ==
    <<Append(opts, option), added \cup {dest}>>

\* Mutant: an already added destination is overwritten by the later option.
Register_LastWins(opts, added, dest, option) ==
    IF dest \in added
    THEN <<[k \in 1..Len(opts) |->
               IF opts[k].opt_str \in {dest, "--" \o dest} THEN option ELSE opts[k]],
           added>>
    ELSE <<Append(opts, option), added \cup {dest}>>

\* Lines 248-253 as <<options, added_args>>: an already added destination
\* is left alone, a new one is given to group.add_argument and recorded.
Register(opts, added, dest, option) ==
    IF dest \in added THEN <<opts, added>>
    ELSE <<Append(opts, option), added \cup {dest}>>

\* Mutant: a parameter without option kind is dropped, required or not.
RaisesUntyped_Never(param) == FALSE

\* Line 254: a parameter without option kind raises when it is required.
RaisesUntyped(param) == is_required(param)

\* Lines 205-255: the body of the inner loop for parameter num of object idx.
WalkParam ==
    /\ pc = "walk"
    /\ idx <= ZipLen
    /\ num < Len(signature(objects[idx]))
    /\ LET obj == objects[idx]
           param == signature(obj)[num + 1]
           kwargs == ParamKwargs(param, doc_params, call.as_positional)
           dest == Dest(call.nested_key, param.name)
           option == [on |-> group,
                      opt_str |-> OptStr(dest, param, call.as_positional),
                      kwargs |-> kwargs,
                      src |-> <<idx, num>>]
       IN  IF SkipReason(param, num, add_types[idx], call.skip, call.skip_first) # None
           THEN /\ num' = num + 1
                /\ UNCHANGED <<pc, options, added_args, outcome>>
           ELSE IF HasOptionKind(kwargs)
           THEN /\ options' = Register(options, added_args, dest, option)[1]
                /\ added_args' = Register(options, added_args, dest, option)[2]
                /\ num' = num + 1
                /\ UNCHANGED <<pc, outcome>>
           ELSE IF RaisesUntyped(param)
           THEN /\ pc' = "raised"
                /\ outcome' = ValueError(obj.name, param.name)
                /\ UNCHANGED <<num, options, added_args>>
           ELSE /\ num' = num + 1
                /\ UNCHANGED <<pc, options, added_args, outcome>>
    /\ UNCHANGED <<call, objects, add_types, has_args, has_kwargs, idx,
                   doc_group, doc_params, group, groups, inspected>>

\* Line 204-205: the inner loop is exhausted, the next zip pair is taken.
NextObject ==
    /\ pc = "walk"
    /\ idx <= ZipLen
    /\ num >= Len(signature(objects[idx]))
    /\ idx' = idx + 1
    /\ num' = 0
    /\ inspected' = inspected \cup (IF idx + 1 <= ZipLen THEN {idx + 1} ELSE {})
    /\ UNCHANGED <<call, pc, objects, add_types, has_args, has_kwargs,
                   doc_group, doc_params, group, groups, options, added_args,
                   outcome>>

\* Line 257.
Return ==
    /\ pc = "walk"
    /\ idx > ZipLen
    /\ pc' = "done"
    /\ outcome' = Returned(Cardinality(added_args))
    /\ UNCHANGED <<call, objects, add_types, has_args, has_kwargs, num, idx,
                   doc_group, doc_params, group, groups, options, added_args,
                   inspected>>

Steps ==
    \/ PropagateStep
    \/ Truncate
    \/ GatherDocstrings
    \/ CreateGroup
    \/ WalkParam
    \/ NextObject
    \/ Return

(***************************************************************************)
(* The callers' inputs.  A universe U bounds what one call may be given:   *)
(* the annotation/default shapes of the parameters x and y, the variadic   *)
(* parameters a callable may declare, and the option arguments.            *)
(***************************************************************************)
Shape(annotation, default) == [annotation |-> annotation, default |-> default]

Regular(name, shape) ==
    Param(name, POSITIONAL_OR_KEYWORD, shape.annotation, shape.default)

\* Python rejects a parameter without default after one with a default.
ValidOrder(params) ==
    \A i, j \in 1..Len(params) :
        i < j /\ ~is_required(params[i]) => ~is_required(params[j])

\* The regular parameter lists of a callable: x and y, each at most once.
ParamLists(U) ==
    {ps \in {<<>>}
            \cup {<<Regular("x", s)>> : s \in U.xs}
            \cup {<<Regular("y", t)>> : t \in U.ys}
            \cup {<<Regular("x", s), Regular("y", t)>> : s \in U.xs, t \in U.ys}
            \cup {<<Regular("y", t), Regular("x", s)>> : s \in U.xs, t \in U.ys} :
        ValidOrder(ps)}

\* A signature: the implicit first parameter, the regular parameters, then
\* *args and **kwargs as declared.
Sig(first, regs, variadic) ==
    (IF first THEN <<SelfParam>> ELSE <<>>) \o regs
        \o (IF variadic[1] THEN <<VarArgs>> ELSE <<>>)
        \o (IF variadic[2] THEN <<VarKwargs>> ELSE <<>>)

ClassName(i) == "C" \o ToString(i)

\* inspect.getmro(theclass) for a user class whose ancestor chain holds n
\* user classes (n in U.depth): most-derived first, then object.
ClassChains(U) ==
    UNION {{[i \in 1..n |-> Callable(ClassName(i), Sig(TRUE, f[i][1], f[i][2]))] \o <<ObjectClass>> :
               f \in [1..n -> ParamLists(U) \X U.variadics]} : n \in U.depth}

\* The chain with the docstring of its first callable made unparsable.
BrokenDocs(objs, broken) ==
    IF broken THEN [objs EXCEPT ![1].docs = <<Unparsable>>] ELSE objs

CallOf(entry, objs, first, nested_key, as_group, as_positional, skip, support) ==
    [entry |-> entry, objects |-> objs, skip_first |-> first,
     nested_key |-> nested_key, as_group |-> as_group,
     as_positional |-> as_positional, skip |-> skip,
     docstring_parser_support |-> support]

\* Lines 20-62.
add_class_arguments(U) ==
    /\ pc = "idle"
    /\ \E objs \in ClassChains(U), nested_key \in U.nested_keys,
          as_group \in U.as_group, as_positional \in U.as_positional,
          skip \in U.skips, support \in U.docstring_parser_support,
          broken \in U.broken_docs :
           Enter(CallOf("add_class_arguments", BrokenDocs(objs, broken), TRUE,
                        nested_key, as_group,
                        as_positional, skip, support))

\* Lines 65-106.  A plain method is read from the class as a function that
\* declares self; a static method declares no first parameter and is not
\* skip_first; a class method is read bound (cls dropped) and is skip_first.
add_method_arguments(U) ==
    /\ pc = "idle"
    /\ \E regs \in ParamLists(U), variadic \in U.variadics,
          how \in {"method", "staticmethod", "classmethod"},
          nested_key \in U.nested_keys,
          as_group \in U.as_group, as_positional \in U.as_positional,
          skip \in U.skips, support \in U.docstring_parser_support,
          broken \in U.broken_docs :
           Enter(CallOf("add_method_arguments",
                        BrokenDocs(<<Callable("themethod",
                                              Sig(how = "method", regs, variadic))>>,
                                   broken),
                        how # "staticmethod", nested_key, as_group,
                        as_positional, skip, support))

\* Lines 109-142.
add_function_arguments(U) ==
    /\ pc = "idle"
    /\ \E regs \in ParamLists(U), variadic \in U.variadics,
          nested_key \in U.nested_keys,
          as_group \in U.as_group, as_positional \in U.as_positional,
          skip \in U.skips, support \in U.docstring_parser_support,
          broken \in U.broken_docs :
           Enter(CallOf("add_function_arguments",
                        BrokenDocs(<<Callable("function", Sig(FALSE, regs, variadic))>>,
                                   broken),
                        FALSE, nested_key, as_group, as_positional, skip, support))

ReqInt == Shape(Type("int"), NoDefault)
OptInt == Shape(Type("int"), Default("1"))
ReqUntyped == Shape(_empty, NoDefault)
UntypedNone == Shape(_empty, Default(None))
OptUnsupported == Shape(Type("Unsupported"), Default("1"))

AllVariadics == {<<TRUE, TRUE>>, <<TRUE, FALSE>>, <<FALSE, TRUE>>, <<FALSE, FALSE>>}

\* Every annotation with every default, for one-class chains, methods and
\* functions under every combination of the option arguments.
TypesUniverse ==
    [xs |-> {Shape(a, d) :
                a \in {_empty, Type("int"), Type("bool"), Type("PosInt"), Type("MyEnum"),
                       Type("List"), Type("Unsupported"), OptionalOf(Type("int"))},
                d \in {NoDefault, Default(None), Default("1"), Factory("1")}},
     ys |-> {ReqInt, OptInt, ReqUntyped},
     variadics |-> {<<TRUE, TRUE>>, <<FALSE, FALSE>>},
     depth |-> {1},
     nested_keys |-> {None, "", "n"},
     as_group |-> BOOLEAN,
     as_positional |-> BOOLEAN,
     skips |-> {{}, {"y"}},
     docstring_parser_support |-> {TRUE},
     broken_docs |-> {FALSE}]

\* Chains of up to MaxChain user classes with every combination of *args
\* and **kwargs at every position.
ChainUniverse ==
    [xs |-> {ReqInt, OptInt, ReqUntyped},
     ys |-> {},
     variadics |-> AllVariadics,
     depth |-> 1..MaxChain,
     nested_keys |-> {None},
     as_group |-> {TRUE},
     as_positional |-> {FALSE},
     skips |-> {{}, {"x"}},
     docstring_parser_support |-> {TRUE},
     broken_docs |-> BOOLEAN]

\* Chains that declare the same names at several positions.
NamesUniverse ==
    [xs |-> {ReqInt, OptInt},
     ys |-> {OptInt},
     variadics |-> {<<TRUE, TRUE>>, <<TRUE, FALSE>>, <<FALSE, TRUE>>},
     depth |-> 1..MaxChain,
     nested_keys |-> {None, "n"},
     as_group |-> {TRUE},
     as_positional |-> {FALSE},
     skips |-> {{}},
     docstring_parser_support |-> {FALSE},
     broken_docs |-> {FALSE}]

\* Chains that redeclare x with another annotation or default.
OverrideUniverse ==
    [xs |-> {ReqInt, OptInt, ReqUntyped, UntypedNone, OptUnsupported},
     ys |-> {},
     variadics |-> {<<TRUE, TRUE>>, <<TRUE, FALSE>>, <<FALSE, TRUE>>},
     depth |-> 1..MaxChain,
     nested_keys |-> {None, "n"},
     as_group |-> {TRUE},
     as_positional |-> {FALSE},
     skips |-> {{}, {"x"}},
     docstring_parser_support |-> {TRUE},
     broken_docs |-> {FALSE}]

Next ==
    \/ add_class_arguments(TypesUniverse)
    \/ add_method_arguments(TypesUniverse)
    \/ add_function_arguments(TypesUniverse)
    \/ Steps

Spec == Init /\ [][Next]_vars

NextChain ==
    \/ add_class_arguments(ChainUniverse)
    \/ add_method_arguments(ChainUniverse)
    \/ add_function_arguments(ChainUniverse)
    \/ Steps

SpecChain == Init /\ [][NextChain]_vars

NextNames ==
    \/ add_class_arguments(NamesUniverse)
    \/ add_method_arguments(NamesUniverse)
    \/ add_function_arguments(NamesUniverse)
    \/ Steps

SpecNames == Init /\ [][NextNames]_vars

NextOverride ==
    \/ add_class_arguments(OverrideUniverse)
    \/ add_method_arguments(OverrideUniverse)
    \/ add_function_arguments(OverrideUniverse)
    \/ Steps

SpecOverride == Init /\ [][NextOverride]_vars

(***************************************************************************)
(* Properties.  Positions of the chain count from 1: position 1 is the     *)
(* most-derived callable.                                                  *)
(***************************************************************************)
Called == call # NoCall

\* The callable declares a parameter of the given variadic kind.
Declares(obj, kind) == \E i \in 1..Len(obj.params) : obj.params[i].kind = kind

\* The parameter an option was built from.
SourceParam(option) == call.objects[option.src[1]].params[option.src[2] + 1]

\* The options built from parameters (not the config-load option).
ParamOptions == {k \in 1..Len(options) : options[k].src # <<0, 0>>}

\* Both flags after the first k callables of the chain passed in.
FlagsAfter(k) ==
    <<\A j \in 1..k : Declares(call.objects[j], VAR_POSITIONAL),
      \A j \in 1..k : Declares(call.objects[j], VAR_KEYWORD)>>

\* C8: the propagation state paired with chain position k is (True, True)
\* for the first position and otherwise the conjunction, flag by flag, of
\* "declares *args" and of "declares **kwargs" over the positions before k;
\* so each flag, once false, is false at every later position.
C8_PropagationState ==
    Called =>
        /\ \A k \in 1..Len(add_types) : add_types[k] = FlagsAfter(k - 1)
        /\ \A k \in 1..(Len(add_types) - 1) :
               /\ add_types[k + 1][1] => add_types[k][1]
               /\ add_types[k + 1][2] => add_types[k][2]
        /\ pc = "propagation" => <<has_args, has_kwargs>> = FlagsAfter(num)

\* C8 witness: at the third position *args is off because the first
\* callable lacks it, though the second and third declare it, while
\* **kwargs is still on.
C8_Witness ==
    /\ pc = "done"
    /\ Len(add_types) = 3
    /\ add_types[3] = <<FALSE, TRUE>>
    /\ Declares(call.objects[2], VAR_POSITIONAL)
    /\ Declares(call.objects[3], VAR_POSITIONAL)

\* The first position after which both flags are false, else the length of
\* the chain passed in.
CutAt ==
    LET dead == {k \in 1..(Len(call.objects) - 1) :
                    ~FlagsAfter(k)[1] /\ ~FlagsAfter(k)[2]}
    IN  IF dead = {} THEN Len(call.objects)
        ELSE CHOOSE k \in dead : \A m \in dead : k <= m

DocOrigins(texts) ==
    \A t \in texts :
        t = None \/ \E i \in 1..CutAt :
                        \/ t = "About " \o call.objects[i].name
                        \/ \E p \in {"x", "y"} : t = call.objects[i].name \o ":" \o p

\* C9: once both flags are false after positions 1..k the chain is cut to
\* its first k entries: after the propagation loop `objects` is that prefix,
\* add_types has as many entries as it, no signature or docstring of a
\* later position is read and none contributes a group title, a help text
\* or an option; a call that returns has walked every position of the
\* (possibly cut) chain.
C9_Truncation ==
    Called =>
        /\ inspected \subseteq 1..CutAt
        /\ \A k \in ParamOptions : options[k].src[1] <= CutAt
        /\ pc \in {"docstrings", "group", "walk", "done", "raised"} =>
              /\ objects = SubSeq(call.objects, 1, CutAt)
              /\ Len(add_types) = Len(objects)
        /\ DocOrigins({doc_group} \cup {doc_params[p] : p \in DOMAIN doc_params}
                        \cup {g.title : g \in {groups[k] : k \in 1..Len(groups)}
                                            \ {[title |-> StrOf(call.objects[1]),
                                                name |-> call.objects[1].name]}}
                        \cup {options[k].kwargs.help : k \in ParamOptions})
        /\ pc = "done" => idx = CutAt + 1 /\ inspected = 1..CutAt

\* C9 witness: a chain of three cut to two, whose third callable is never
\* read, and a returned call.
C9_Witness ==
    /\ pc = "done"
    /\ Len(call.objects) = 3
    /\ Len(objects) = 2
    /\ Len(add_types) = 2
    /\ inspected = {1, 2}

\* C3: when the most-derived callable declares no **kwargs, no option is
\* built from a parameter with a default declared at a later position.
C3_NoKwargsNoAncestorDefaults ==
    (Called /\ ~Declares(call.objects[1], VAR_KEYWORD)) =>
        \A k \in ParamOptions :
            options[k].src[1] >= 2 => is_required(SourceParam(options[k]))

\* C3 witness: the first callable declares *args only, the second declares
\* x: int = 1 and **kwargs, is walked, and the call returns without x.
C3_Witness ==
    /\ pc = "done"
    /\ ~Declares(call.objects[1], VAR_KEYWORD)
    /\ Len(objects) >= 2
    /\ Declares(objects[2], VAR_KEYWORD)
    /\ \E n \in 1..Len(objects[2].params) :
           /\ objects[2].params[n] = Regular("x", OptInt)
           /\ "x" \notin call.skip
    /\ options = <<>>

\* A required parameter of a later walked position that no rule among the
\* variadic kind, the skipped first parameter and skip excludes.
AncestorRequired(i, n) ==
    /\ i \in 2..Len(objects)
    /\ n \in 1..Len(objects[i].params)
    /\ is_required(objects[i].params[n])
    /\ IsRegular(objects[i].params[n])
    /\ ~(call.skip_first /\ n = 1)
    /\ objects[i].params[n].name \notin call.skip

\* C4 as claimed: when the most-derived callable declares no *args, a call
\* whose walked chain holds such a required parameter at a later position
\* does not return: it raises ValueError.
C4_AncestorRequiredFails ==
    (pc = "done" /\ ~Declares(call.objects[1], VAR_POSITIONAL)) =>
        ~\E i \in 1..Len(objects) : \E n \in 1..Len(objects[i].params) :
            AncestorRequired(i, n)

\* C4 amended: when the most-derived callable declares no *args, a required
\* parameter of a later position is skipped: no option is built from it
\* and it never is the parameter a ValueError is raised for.
C4_AncestorRequiredSkipped ==
    (Called /\ ~Declares(call.objects[1], VAR_POSITIONAL)) =>
        /\ \A k \in ParamOptions :
               options[k].src[1] >= 2 => ~is_required(SourceParam(options[k]))
        /\ outcome.kind = "ValueError" => outcome.obj = call.objects[1].name

\* C4 witness: a returned call whose second callable declares a required,
\* unannotated x that nothing excludes.
C4_Witness ==
    /\ pc = "done"
    /\ ~Declares(call.objects[1], VAR_POSITIONAL)
    /\ \E i \in 2..Len(objects) : \E n \in 1..Len(objects[i].params) :
           /\ AncestorRequired(i, n)
           /\ objects[i].params[n] = Regular("x", ReqUntyped)

\* The options registered under destination key d.
OptionsFor(d) == {k \in 1..Len(options) : options[k].opt_str \in {d, "--" \o d}}

\* The places <<i, n>> of the chain passed in where a regular parameter
\* called name is declared (n counts from 1).
Occurrences(name) ==
    {o \in UNION {{<<i, n>> : n \in 1..Len(call.objects[i].params)} :
                     i \in 1..Len(call.objects)} :
        /\ call.objects[o[1]].params[o[2]].name = name
        /\ IsRegular(call.objects[o[1]].params[o[2]])}

\* The names of the regular parameters of the chain, the implicit first
\* parameter apart.
RegularNames ==
    {call.objects[i].params[n].name :
        <<i, n>> \in {o \in UNION {{<<j, m>> : m \in 1..Len(call.objects[j].params)} :
                                      j \in 1..Len(call.objects)} :
                         /\ IsRegular(call.objects[o[1]].params[o[2]])
                         /\ ~(call.skip_first /\ o[2] = 1)}}

\* The occurrence <<i, n>> is in the walked chain and passes the exclusion
\* rules of its position.
Survives(o) ==
    LET param == call.objects[o[1]].params[o[2]]
    IN  /\ o[1] <= Len(objects)
        /\ IsRegular(param)
        /\ ~(is_required(param) /\ call.skip_first /\ o[2] = 1)
        /\ ~(param.annotation = _empty /\ param.default = Default(None))
        /\ is_required(param) => FlagsAfter(o[1] - 1)[1]
        /\ ~is_required(param) => FlagsAfter(o[1] - 1)[2]
        /\ param.name \notin call.skip

\* The parameter can be mapped to an option kind.
Mappable(o) ==
    HasOptionKind(ParamKwargs(call.objects[o[1]].params[o[2]], doc_params,
                              call.as_positional))

\* The occurrence survives and gets an option kind.
Eligible(o) == Survives(o) /\ Mappable(o)

Before(o1, o2) == o1[1] < o2[1] \/ (o1[1] = o2[1] /\ o1[2] <= o2[2])

\* C1: within one call add_argument is called at most once for every
\* destination key (nested_key + "." if nested_key else "") + name, however
\* many positions declare name, and added_args is exactly the set of the
\* destination keys add_argument was called for.
C1_AtMostOncePerDest ==
    Called =>
        /\ \A name \in RegularNames :
               Cardinality(OptionsFor(Dest(call.nested_key, name))) <= 1
        /\ pc \in {"walk", "done", "raised"} =>
               added_args = {Dest(call.nested_key, SourceParam(options[k]).name) :
                                k \in ParamOptions}

\* C1 witness: a returned call in which x is eligible at two positions and
\* both x and y were added.
C1_Witness ==
    /\ pc = "done"
    /\ \E o1, o2 \in Occurrences("x") : o1[1] < o2[1] /\ Eligible(o1) /\ Eligible(o2)
    /\ added_args = {Dest(call.nested_key, "x"), Dest(call.nested_key, "y")}
    /\ call.nested_key = "n"

\* C2 as claimed: for every name declared at more than one position a
\* returned call has registered exactly one option under its destination
\* key, the one built from the most-derived declaration.
C2_MostDerivedWins ==
    pc = "done" =>
        \A name \in RegularNames :
            Cardinality({o[1] : o \in Occurrences(name)}) > 1 =>
                \E k \in ParamOptions :
                    /\ OptionsFor(Dest(call.nested_key, name)) = {k}
                    /\ \A o \in Occurrences(name) : options[k].src[1] <= o[1]

\* C2 amended: for every name declared at more than one position a
\* returned call has registered at most one option under its destination
\* key: none when no walked declaration passes the exclusion rules with an
\* option kind, otherwise exactly the option built from the earliest such
\* declaration in chain order.
C2_FirstEligibleWins ==
    pc = "done" =>
        \A name \in RegularNames :
            Cardinality({o[1] : o \in Occurrences(name)}) > 1 =>
                LET elig == {o \in Occurrences(name) : Eligible(o)}
                    d == Dest(call.nested_key, name)
                IN  IF elig = {} THEN OptionsFor(d) = {}
                    ELSE \E k \in ParamOptions : \E o \in elig :
                            /\ OptionsFor(d) = {k}
                            /\ \A e \in elig : Before(o, e)
                            /\ options[k].src = <<o[1], o[2] - 1>>
                            /\ options[k].kwargs =
                                   ParamKwargs(call.objects[o[1]].params[o[2]],
                                               doc_params, call.as_positional)

\* C2 witness: x is declared twice, the most-derived declaration gets no
\* option and the option registered is built from the ancestor's.
C2_Witness ==
    /\ pc = "done"
    /\ \E o1, o2 \in Occurrences("x") :
           /\ o1[1] < o2[1]
           /\ ~Eligible(o1)
           /\ \E k \in ParamOptions : options[k].src = <<o2[1], o2[2] - 1>>

\* C7 as claimed: a parameter whose destination key was already added in
\* the call never makes the call fail.
C7_DuplicateNeverFails ==
    pc = "raised" => Dest(call.nested_key, outcome.name) \notin added_args

\* Every place <<i, n>> of the chain passed in.
Places ==
    UNION {{<<i, n>> : n \in 1..Len(call.objects[i].params)} :
              i \in 1..Len(call.objects)}

\* The places the walk has already dealt with: the parameter at the cursor
\* <<idx, num + 1>> is the next one.
WalkedPast == {o \in Places : o[1] < idx \/ (o[1] = idx /\ o[2] <= num)}

\* A required parameter that survives the exclusion rules and cannot be
\* mapped to any option kind.
Unmappable(o) ==
    Survives(o) /\ is_required(call.objects[o[1]].params[o[2]]) /\ ~Mappable(o)

\* C5: the walk never passes a required, surviving, unmappable parameter
\* and never returns a count with one in the chain; at such a parameter the
\* call raises ValueError naming it, no option exists for it or for a
\* parameter after it, and what was registered before (the group, its
\* config-load option, the options of the eligible parameters before it)
\* is still registered.
C5_RequiredUnmappableRaises ==
    Called =>
        /\ pc \in {"walk", "done"} => \A o \in WalkedPast : ~Unmappable(o)
        /\ pc = "raised" =>
              /\ Unmappable(<<idx, num + 1>>)
              /\ outcome = ValueError(objects[idx].name, objects[idx].params[num + 1].name)
              /\ \A k \in ParamOptions :
                     <<options[k].src[1], options[k].src[2] + 1>> \in WalkedPast
              /\ \A o \in WalkedPast :
                     Eligible(o) =>
                         OptionsFor(Dest(call.nested_key,
                                         call.objects[o[1]].params[o[2]].name)) # {}
              /\ call.as_group =>
                     /\ Len(groups) = 1
                     /\ call.nested_key # None =>
                            options[1].kwargs = ("action" :> _ActionConfigLoad)

\* C5 witness: the call raised at the second parameter after the group,
\* its config-load option and the option of the first parameter were
\* registered.
C5_Witness ==
    /\ pc = "raised"
    /\ Len(groups) = 1
    /\ Len(options) = 2
    /\ options[1].src = <<0, 0>>
    /\ Unmappable(<<idx, num + 1>>)
    /\ \E o \in WalkedPast : Eligible(o)

\* C6 as claimed: the integer returned is the number of options the call
\* registered.
C6_ReturnCountsAllOptions ==
    pc = "done" => outcome.value = Len(options)

\* C6 amended: the integer returned is the number of options registered
\* from parameters; the config-load option that group creation registers
\* when as_group is set and nested_key is given is not counted.
C6_ReturnCountsParamOptions ==
    pc = "done" =>
        /\ outcome.kind = "returned"
        /\ outcome.value = Cardinality(ParamOptions)
        /\ outcome.value = Len(options)
              - (IF call.as_group /\ call.nested_key # None THEN 1 ELSE 0)

\* C6 witness: two parameter options and the config-load option, 2 returned.
C6_Witness ==
    /\ pc = "done"
    /\ call.as_group
    /\ call.nested_key = "n"
    /\ Len(options) = 3
    /\ outcome = Returned(2)

\* The annotation, or the type of the default when there is no annotation.
DeclaredOrInferred(param) ==
    IF param.annotation = _empty /\ param.default # NoDefault
    THEN TypeOfValue(param.default.value)
    ELSE param.annotation

\* str, int, float, bool or a subclass of str, int or float.
SimpleOrSubtype(t) == ~t.opt /\ t.t \in {"str", "int", "float", "bool", "PosInt"}

\* required=True exactly when required and not as_positional, default=value
\* exactly when there is a default.
RequiredAndDefault(kwargs, param) ==
    /\ "required" \in DOMAIN kwargs <=> (param.default = NoDefault /\ ~call.as_positional)
    /\ "required" \in DOMAIN kwargs => kwargs.required = TRUE
    /\ "default" \in DOMAIN kwargs <=> param.default # NoDefault
    /\ "default" \in DOMAIN kwargs => kwargs.default = param.default.value

\* C10 as claimed: an option built from a parameter of simple effective
\* type carries that type as 'type' and no 'action', also when the default
\* is None.
C10_SimpleTypedOption ==
    \A k \in ParamOptions :
        LET param == SourceParam(options[k])
            kwargs == options[k].kwargs
        IN  SimpleOrSubtype(DeclaredOrInferred(param)) =>
                /\ "type" \in DOMAIN kwargs /\ kwargs.type = DeclaredOrInferred(param)
                /\ "action" \notin DOMAIN kwargs
                /\ RequiredAndDefault(kwargs, param)

\* C10 amended: as claimed unless the default is None: then the annotation
\* is wrapped as Optional first, and the option carries no 'type' but the
\* schema-validating action of the wrapped annotation, with default=None.
C10_SimpleTypedUnlessNoneDefault ==
    \A k \in ParamOptions :
        LET param == SourceParam(options[k])
            kwargs == options[k].kwargs
            t == DeclaredOrInferred(param)
        IN  SimpleOrSubtype(t) =>
                /\ RequiredAndDefault(kwargs, param)
                /\ IF param.default.value = None
                   THEN /\ "type" \notin DOMAIN kwargs
                        /\ "action" \in DOMAIN kwargs
                        /\ kwargs.action = ActionJsonSchema([t |-> t.t, opt |-> TRUE])
                   ELSE /\ "type" \in DOMAIN kwargs /\ kwargs.type = t
                        /\ "action" \notin DOMAIN kwargs

\* C10 witness: a returned call with as_positional that registered a
\* required int as a positional without required=True and an int with
\* default None under the schema-validating action.
C10_Witness ==
    /\ pc = "done"
    /\ call.as_positional
    /\ \E k1, k2 \in ParamOptions :
           /\ SourceParam(options[k1]) = Regular("y", ReqInt)
           /\ options[k1].opt_str = Dest(call.nested_key, "y")
           /\ options[k1].kwargs.type = Type("int")
           /\ SourceParam(options[k2]) = Regular("x", Shape(Type("int"), Default(None)))
           /\ "action" \in DOMAIN options[k2].kwargs

====
